---- MODULE Spec2Model ----
(***************************************************************************)
(* Workflow orchestration and execution tracking of the backend:           *)
(*   app/services/workflow_service.py  (WorkflowService)                   *)
(*   app/services/n8n_service.py       (N8NService, the engine gateway)    *)
(*   app/tasks/workflow_tasks.py       (the celery jobs)                   *)
(*                                                                         *)
(* Every handler is a coroutine: it runs without interruption between two  *)
(* awaits and may be interleaved with other handlers at each await.  One   *)
(* action of this module is one such segment together with the database or *)
(* engine operation it awaits, so the two collections (workflows,          *)
(* workflow_executions) change by one document operation per step.         *)
(***************************************************************************)
EXTENDS Integers, Sequences, FiniteSets, TLC

\* ------------------------------------------------------------------ bounds
\* the number of calls (requests and task runs) of one run
MaxCalls == 5
\* the number of workflows created in one run
MaxWorkflows == 1

Procs == {"p1", "p2"}
Users == {"u1", "u2"}
\* ids are handed out once each; a run creates at most one document per call
WorkflowIds == 1..MaxWorkflows
ExecutionIds == 1..MaxCalls
\* timedelta(days=30) of cleanup_old_executions_task
RetentionDays == 30
\* the instants utcnow() and the engine's finishedAt range over, in days
Times == {0, 1 + RetentionDays}
\* the number of executions stored when a run of RetentionSpec starts
MaxStored == 2
\* the number of steps added in one run
MaxSteps == 2

\* Optional[...] fields: None is the empty sequence, a value v is <<v>>.
None == <<>>
Some(v) == <<v>>
IsSome(o) == o # <<>>
Val(o) == o[1]

\* ------------------------------------------------------------ enumerations
WorkflowStatus == {"draft", "active", "paused", "error"}
TriggerType == {"manual", "webhook"}
ExecutionStatus == {"pending", "running", "success", "failed", "cancelled"}

\* What the engine may answer as the status of an execution; "crashed" stands
\* for every string outside the translation table.
EngineStatus == {"running", "success", "failed", "canceled", "waiting", "crashed"}

\* Outcome of one HTTP request to the engine: a 2xx response, a non-2xx
\* response (httpx returns it; only raise_for_status turns it into an
\* exception) or a transport error (httpx raises).
HttpOutcome == {"ok", "http_error", "net_error"}

VARIABLES
    workflows,      \* db.workflows: id -> document, for the stored documents
    executions,     \* db.workflow_executions: id -> document
    nextWorkflow,   \* number of workflow ids handed out so far (uuid4: never reused)
    nextExecution,  \* number of execution ids handed out so far
    nextGraph,      \* number of graph ids the engine has handed out so far
    nextStep,       \* number of step ids handed out so far
    graphs,         \* the engine's workflows: graph id -> the graph it holds
    now,            \* datetime.utcnow()
    calls,          \* number of calls started so far
    proc            \* the running handlers: their arguments, position and locals

vars == <<workflows, executions, nextWorkflow, nextExecution, nextStep, nextGraph,
          graphs, now, calls, proc>>

\* A handler that is not running: op and result tell its last call and what
\* that call returned (or raised), engCalled and engFailed whether the call
\* sent a request to the engine and whether one of its requests failed.
\* task, targs and retries are the request of the celery task the worker runs
\* (its name, its arguments, self.request.retries), tstate the task's state:
\* running, retry (sent again, waiting for its countdown), success, failure.
Idle == [op |-> "none", pc |-> "done", user |-> "none", wf |-> 0, ex |-> 0,
         seen |-> "none", tt |-> "none", steps |-> <<>>, step |-> None,
         gid |-> None, t0 |-> 0, our |-> "none",
         n8n |-> "none", fin |-> None, eid |-> None, td |-> None, queue |-> <<>>,
         result |-> "none",
         engCalled |-> FALSE, engFailed |-> FALSE,
         task |-> "none", targs |-> <<>>, retries |-> 0, tstate |-> "none"]

\* The locals of a handler that starts operation o for user u.
Start(o, u, w, e) == [Idle EXCEPT !.op = o, !.user = u, !.wf = w, !.ex = e]

\* The handler returns (or raises) res: its locals are gone.  When a task of
\* the worker called it, the task's request (task, targs, retries, tstate) is
\* still there.
Finish(r, res) == [Idle EXCEPT !.op = r.op, !.result = res,
                               !.engCalled = r.engCalled, !.engFailed = r.engFailed,
                               !.task = r.task, !.targs = r.targs,
                               !.retries = r.retries, !.tstate = r.tstate]

Init ==
    /\ workflows = << >>
    /\ executions = << >>
    /\ nextWorkflow = 0
    /\ nextExecution = 0
    /\ nextStep = 0
    /\ nextGraph = 0
    /\ graphs = << >>
    /\ now = 0
    /\ calls = 0
    /\ proc = [p \in Procs |-> Idle]

\* --------------------------------------------------------- the collections
\* find_one({"id": w, "user_id": u}) on db.workflows found a document
FoundWorkflow(w, u) == w \in DOMAIN workflows /\ workflows[w].user_id = u

Remove(f, k) == [x \in DOMAIN f \ {k} |-> f[x]]

Tick ==
    /\ \E t \in Times : t > now /\ now' = t
    /\ UNCHANGED <<workflows, executions, nextWorkflow, nextStep, nextExecution, nextGraph, graphs, calls, proc>>

SetProc(p, r) == proc' = [proc EXCEPT ![p] = r]

\* A call starts: a request reaches its handler, or the worker takes a task.
Called == calls < MaxCalls /\ calls' = calls + 1

\* ------------------------------------------- WorkflowService, one-step calls
\* create_workflow(user_id, ..., workflow_data): insert_one of a Workflow with
\* the model's defaults (status draft, n8n_workflow_id None).
create_workflow(p, u, tt) ==
    /\ proc[p].pc = "done"
    /\ Called
    /\ nextWorkflow < MaxWorkflows
    /\ LET w == nextWorkflow + 1 IN
        /\ workflows' = workflows @@ (w :> [user_id |-> u, status |-> "draft",
                                            n8n_workflow_id |-> None,
                                            trigger_type |-> tt, steps |-> <<>>])
        /\ nextWorkflow' = w
        /\ SetProc(p, Finish(Start("create", u, w, 0), "created"))
    /\ UNCHANGED <<executions, nextExecution, nextStep, nextGraph, graphs, now>>

\* update_workflow(workflow_id, user_id, update_data): update_one by id and
\* user_id with the fields of WorkflowUpdate that are not None; status is one
\* of them (st = "none": not given).
update_workflow(p, u, w, st) ==
    /\ proc[p].pc = "done"
    /\ Called
    /\ IF FoundWorkflow(w, u)
       THEN /\ workflows' = IF st = "none" THEN workflows
                            ELSE [workflows EXCEPT ![w].status = st]
            /\ SetProc(p, Finish(Start("update", u, w, 0), "updated"))
       ELSE /\ UNCHANGED workflows
            /\ SetProc(p, Finish(Start("update", u, w, 0), "WorkflowNotFound"))
    /\ UNCHANGED <<executions, nextWorkflow, nextStep, nextExecution, nextGraph, graphs, now>>

\* get_workflow(workflow_id, user_id): find_one by id and user_id; the
\* workflow, or None.
get_workflow(p, u, w) ==
    /\ proc[p].pc = "done"
    /\ Called
    /\ SetProc(p, Finish(Start("get", u, w, 0),
                         IF FoundWorkflow(w, u) THEN "found" ELSE "None"))
    /\ UNCHANGED <<workflows, executions, nextWorkflow, nextStep, nextExecution, nextGraph, graphs, now>>

\* get_workflow_executions(workflow_id, user_id): find by workflow_id and
\* user_id; the list of the matching executions, empty when there is none.
get_workflow_executions(p, u, w) ==
    /\ proc[p].pc = "done"
    /\ Called
    /\ LET found == {e \in DOMAIN executions :
                        /\ executions[e].workflow_id = w
                        /\ executions[e].user_id = u}
       IN SetProc(p, Finish(Start("list", u, w, 0),
                            IF found = {} THEN "[]" ELSE "list"))
    /\ UNCHANGED <<workflows, executions, nextWorkflow, nextStep, nextExecution, nextGraph, graphs, now>>

\* Variant of pause_workflow whose update_one filters by id alone.
pause_workflow_by_id(p, u, w) ==
    /\ proc[p].pc = "done"
    /\ Called
    /\ IF w \in DOMAIN workflows
       THEN /\ workflows' = [workflows EXCEPT ![w].status = "paused"]
            /\ SetProc(p, Finish(Start("pause", u, w, 0), "true"))
       ELSE /\ UNCHANGED workflows
            /\ SetProc(p, Finish(Start("pause", u, w, 0), "false"))
    /\ UNCHANGED <<executions, nextWorkflow, nextStep, nextExecution, nextGraph, graphs, now>>

\* pause_workflow: update_one by id and user_id, $set status paused.
pause_workflow(p, u, w) ==
    /\ proc[p].pc = "done"
    /\ Called
    /\ IF FoundWorkflow(w, u)
       THEN /\ workflows' = [workflows EXCEPT ![w].status = "paused"]
            /\ SetProc(p, Finish(Start("pause", u, w, 0), "true"))
       ELSE /\ UNCHANGED workflows
            /\ SetProc(p, Finish(Start("pause", u, w, 0), "false"))
    /\ UNCHANGED <<executions, nextWorkflow, nextStep, nextExecution, nextGraph, graphs, now>>

\* resume_workflow: update_one by id and user_id, $set status active.
resume_workflow(p, u, w) ==
    /\ proc[p].pc = "done"
    /\ Called
    /\ IF FoundWorkflow(w, u)
       THEN /\ workflows' = [workflows EXCEPT ![w].status = "active"]
            /\ SetProc(p, Finish(Start("resume", u, w, 0), "true"))
       ELSE /\ UNCHANGED workflows
            /\ SetProc(p, Finish(Start("resume", u, w, 0), "false"))
    /\ UNCHANGED <<executions, nextWorkflow, nextStep, nextExecution, nextGraph, graphs, now>>

\* ------------------------------------------------------------- the steps
\* The names the steps of the requests have; the last is also the name of the
\* manual trigger's node.
StepNames == {"A", "B", "Manual Trigger"}

\* A WorkflowStep as pydantic builds it from a request body: every int is a
\* timeout_seconds, every str an on_error, integration_id is optional; id and
\* order are set by add_workflow_step.
WorkflowStep(name, action_type, integration_id, timeout_seconds, on_error) ==
    [id |-> 0, name |-> name, action_type |-> action_type,
     integration_id |-> integration_id, timeout_seconds |-> timeout_seconds,
     on_error |-> on_error, order |-> 0]

\* The request bodies of addStep: a step with the defaults under each name,
\* and steps with a zero timeout, an on_error outside stop/continue/retry,
\* and an integration action with and without its integration_id.
StepBodies ==
    {WorkflowStep(n, "api_call", None, 300, "stop") : n \in StepNames}
    \cup {WorkflowStep("A", "api_call", None, 0, "stop"),
          WorkflowStep("A", "api_call", None, 300, "ignore"),
          WorkflowStep("A", "integration_action", None, 300, "stop"),
          WorkflowStep("A", "integration_action", Some("i1"), 300, "retry")}

\* The values a step_update of updateStep gives to "order" and to
\* "timeout_seconds".
OrderUpdates == {-1, 0, 2}
TimeoutUpdates == {0}

\* add_workflow_step, up to its await of update_one: find_one by id and
\* user_id, then step.order = len(workflow.steps).  The step's id was drawn
\* when the body was parsed.
add_workflow_step_find(p, u, w, body) ==
    /\ proc[p].pc = "done"
    /\ Called
    /\ nextStep < MaxSteps
    /\ nextStep' = nextStep + 1
    /\ LET r == Start("add_step", u, w, 0) IN
        IF ~FoundWorkflow(w, u)
        THEN SetProc(p, Finish(r, "WorkflowNotFound"))
        ELSE SetProc(p, [r EXCEPT !.pc = "add_push",
                                  !.step = Some([body EXCEPT
                                                   !.id = nextStep + 1,
                                                   !.order = Len(workflows[w].steps)])])
    /\ UNCHANGED <<workflows, executions, nextWorkflow, nextExecution, nextGraph,
                   graphs, now>>

\* update_one by id and user_id, $push of the step; the step is returned.
add_workflow_step_push(p) ==
    /\ proc[p].pc = "add_push"
    /\ LET w == proc[p].wf IN
        workflows' = IF FoundWorkflow(w, proc[p].user)
                     THEN [workflows EXCEPT ![w].steps = Append(@, Val(proc[p].step))]
                     ELSE workflows
    /\ SetProc(p, Finish(proc[p], "added"))
    /\ UNCHANGED <<executions, nextWorkflow, nextExecution, nextStep, nextGraph,
                   graphs, now, calls>>

\* update_workflow_step with step_update = {k: v}: update_one by id, user_id
\* and steps.id, $set steps.$.k = v on the first step with that id; True when
\* a document was modified.
update_workflow_step(p, u, w, step_id, k, v) ==
    /\ proc[p].pc = "done"
    /\ Called
    /\ LET r == Start("update_step", u, w, 0)
           Matches == IF FoundWorkflow(w, u)
                      THEN {i \in 1..Len(workflows[w].steps) :
                               workflows[w].steps[i].id = step_id}
                      ELSE {}
       IN IF Matches = {}
          THEN /\ UNCHANGED workflows
               /\ SetProc(p, Finish(r, "false"))
          ELSE LET i == CHOOSE x \in Matches : \A y \in Matches : x <= y IN
               /\ workflows' = [workflows EXCEPT ![w].steps[i][k] = v]
               /\ SetProc(p, Finish(r, IF workflows[w].steps[i][k] = v
                                       THEN "false" ELSE "true"))
    /\ UNCHANGED <<executions, nextWorkflow, nextExecution, nextStep, nextGraph,
                   graphs, now>>

\* remove_workflow_step: update_one by id and user_id, $pull of the steps with
\* that id and $set updated_at; True when a document was modified.
remove_workflow_step(p, u, w, step_id) ==
    /\ proc[p].pc = "done"
    /\ Called
    /\ LET r == Start("remove_step", u, w, 0)
           Kept(st) == st.id # step_id
       IN IF FoundWorkflow(w, u)
          THEN /\ workflows' = [workflows EXCEPT ![w].steps = SelectSeq(@, Kept)]
               /\ SetProc(p, Finish(r, "true"))
          ELSE /\ UNCHANGED workflows
               /\ SetProc(p, Finish(r, "false"))
    /\ UNCHANGED <<executions, nextWorkflow, nextExecution, nextStep, nextGraph,
                   graphs, now>>

\* ------------------------------------------------------ _convert_to_n8n_format
\* _create_trigger_node: the node of the workflow's trigger.
_create_trigger_node(tt) ==
    IF tt = "webhook"
    THEN [id |-> "trigger-webhook", name |-> "Webhook Trigger",
          type |-> "n8n-nodes-base.webhook"]
    ELSE [id |-> "trigger-manual", name |-> "Manual Trigger",
          type |-> "n8n-nodes-base.manualTrigger"]

\* Variant of _create_step_node whose node id is drawn afresh at each
\* translation (as a uuid4 would be) instead of being built from the step.
_create_step_node_fresh_id(step, index) ==
    [id |-> <<"step", index, nextGraph>>, name |-> step.name,
     type |-> IF step.action_type \in {"api_call", "integration_action"}
              THEN "n8n-nodes-base.httpRequest"
              ELSE "n8n-nodes-base.function"]

\* _create_step_node(step, index): the node is named after the step; its id
\* is "step-{index}-{step.id}".  An integration action without a known
\* integration_type in its config becomes a generic HTTP request.
_create_step_node(step, index) ==
    [id |-> <<"step", index, step.id>>, name |-> step.name,
     type |-> IF step.action_type \in {"api_call", "integration_action"}
              THEN "n8n-nodes-base.httpRequest"
              ELSE "n8n-nodes-base.function"]

\* The connections dict after the first k steps of the loop: each step, in
\* the order of the stored list, is appended to the destinations of the name
\* of the node before it.
RECURSIVE Connections(_, _, _)
Connections(trigger_name, steps, k) ==
    IF k = 0 THEN << >>
    ELSE LET connections == Connections(trigger_name, steps, k - 1)
             previous_node == IF k = 1 THEN trigger_name ELSE steps[k - 1].name
         IN IF previous_node \in DOMAIN connections
            THEN [connections EXCEPT ![previous_node] = Append(@, steps[k].name)]
            ELSE connections @@ (previous_node :> <<steps[k].name>>)

\* _convert_to_n8n_format(workflow): the trigger node, then one node per step
\* of workflow.steps in list order, and the connections keyed by node name.
_convert_to_n8n_format(tt, steps) ==
    LET trigger_node == _create_trigger_node(tt) IN
    [nodes |-> <<trigger_node>> \o
               [i \in 1..Len(steps) |-> _create_step_node(steps[i], i - 1)],
     connections |-> Connections(trigger_node.name, steps, Len(steps))]

\* ------------------------------------------------------- deploy_workflow
\* Variant of deploy_workflow_get with the already-active check moved inside
\* the try, so that its exception reaches the except branch.
deploy_workflow_get_in_try(p, u, w) ==
    /\ proc[p].pc = "done"
    /\ Called
    /\ LET r == Start("deploy", u, w, 0) IN
        IF ~FoundWorkflow(w, u)
        THEN SetProc(p, Finish(r, "WorkflowNotFound"))
        ELSE IF workflows[w].status = "active"
        THEN SetProc(p, [r EXCEPT !.pc = "deploy_except", !.seen = "active"])
        ELSE SetProc(p, [r EXCEPT !.pc = "create_post",
                                  !.seen = workflows[w].status,
                                  !.tt = workflows[w].trigger_type,
                                  !.steps = workflows[w].steps])
    /\ UNCHANGED <<workflows, executions, nextWorkflow, nextStep, nextExecution, nextGraph, graphs, now>>

\* get_workflow, then the two precondition checks (both before the try).
deploy_workflow_get(p, u, w) ==
    /\ proc[p].pc = "done"
    /\ Called
    /\ LET r == Start("deploy", u, w, 0) IN
        IF ~FoundWorkflow(w, u)
        THEN SetProc(p, Finish(r, "WorkflowNotFound"))
        ELSE IF workflows[w].status = "active"
        THEN SetProc(p, Finish(r, "WorkflowAlreadyActive"))
        ELSE SetProc(p, [r EXCEPT !.pc = "create_post",
                                  !.seen = workflows[w].status,
                                  !.tt = workflows[w].trigger_type,
                                  !.steps = workflows[w].steps])
    /\ UNCHANGED <<workflows, executions, nextWorkflow, nextStep, nextExecution, nextGraph, graphs, now>>

\* create_n8n_workflow: the workflow read at the start is translated and
\* sent with POST /api/v1/workflows and raise_for_status; any failure is
\* re-raised and lands in deploy_workflow's except branch.
create_n8n_workflow_post(p) ==
    /\ proc[p].pc = "create_post"
    /\ \E o \in HttpOutcome :
        IF o = "ok"
        THEN /\ nextGraph' = nextGraph + 1
             /\ graphs' = graphs @@
                   ((nextGraph + 1) :> _convert_to_n8n_format(proc[p].tt, proc[p].steps))
             /\ SetProc(p, [proc[p] EXCEPT !.pc = "activate", !.engCalled = TRUE,
                                           !.gid = Some(nextGraph + 1)])
        ELSE /\ UNCHANGED <<nextGraph, graphs>>
             /\ SetProc(p, [proc[p] EXCEPT !.pc = "deploy_except", !.engCalled = TRUE,
                                           !.engFailed = TRUE])
    /\ UNCHANGED <<workflows, executions, nextWorkflow, nextStep, nextExecution, now, calls>>

\* _activate_n8n_workflow: PATCH .../activate inside try/except, without
\* raise_for_status: only a transport error raises, a non-2xx response is
\* returned and dropped.
activate_n8n_workflow(p) ==
    /\ proc[p].pc = "activate"
    /\ \E o \in HttpOutcome :
        IF o = "net_error"
        THEN SetProc(p, [proc[p] EXCEPT !.pc = "deploy_except", !.engFailed = TRUE])
        ELSE SetProc(p, [proc[p] EXCEPT !.pc = "deploy_update",
                                        !.engFailed = @ \/ (o = "http_error")])
    /\ UNCHANGED <<workflows, executions, nextWorkflow, nextStep, nextExecution, nextGraph, graphs, now, calls>>

\* deploy_workflow, after create_n8n_workflow returned: update_one by id alone,
\* $set n8n_workflow_id and status active; then the webhook URL if the trigger
\* (of the document read at the start) is a webhook.
deploy_workflow_update(p) ==
    /\ proc[p].pc = "deploy_update"
    /\ LET w == proc[p].wf IN
        /\ workflows' = IF w \in DOMAIN workflows
                        THEN [workflows EXCEPT ![w].n8n_workflow_id = proc[p].gid,
                                               ![w].status = "active"]
                        ELSE workflows
        /\ IF proc[p].tt = "webhook"
           THEN SetProc(p, [proc[p] EXCEPT !.pc = "webhook_url"])
           ELSE SetProc(p, Finish(proc[p], "deployed"))
    /\ UNCHANGED <<executions, nextWorkflow, nextStep, nextExecution, nextGraph, graphs, now, calls>>

\* get_workflow_webhook_url: find_one by id; raises when the document is gone,
\* is not webhook-triggered or has no n8n_workflow_id.  Still inside the try.
get_workflow_webhook_url(p) ==
    /\ proc[p].pc = "webhook_url"
    /\ LET w == proc[p].wf IN
        IF /\ w \in DOMAIN workflows
           /\ workflows[w].trigger_type = "webhook"
           /\ IsSome(workflows[w].n8n_workflow_id)
        THEN SetProc(p, Finish(proc[p], "deployed"))
        ELSE SetProc(p, [proc[p] EXCEPT !.pc = "deploy_except"])
    /\ UNCHANGED <<workflows, executions, nextWorkflow, nextStep, nextExecution, nextGraph, graphs, now, calls>>

\* deploy_workflow's except branch: update_one by id alone, $set status error,
\* then re-raise.
deploy_workflow_except(p) ==
    /\ proc[p].pc = "deploy_except"
    /\ LET w == proc[p].wf IN
        workflows' = IF w \in DOMAIN workflows
                     THEN [workflows EXCEPT ![w].status = "error"]
                     ELSE workflows
    /\ SetProc(p, Finish(proc[p], "DeployFailed"))
    /\ UNCHANGED <<executions, nextWorkflow, nextStep, nextExecution, nextGraph, graphs, now, calls>>

\* ------------------------------------------------------ execute_workflow
\* The trigger_data argument of the requests: a payload.  (Without the
\* argument, None, the record gets the empty dict.)
TriggerData == {Some("d1")}

\* Variant of execute_workflow_get without the status check.
execute_workflow_get_unchecked(p, u, w) ==
    /\ proc[p].pc = "done"
    /\ Called
    /\ \E trigger_data \in TriggerData :
        LET r == [Start("execute", u, w, 0) EXCEPT !.td = trigger_data] IN
        IF ~FoundWorkflow(w, u)
        THEN SetProc(p, Finish(r, "WorkflowNotFound"))
        ELSE SetProc(p, [r EXCEPT !.pc = "execute_find"])
    /\ UNCHANGED <<workflows, executions, nextWorkflow, nextStep, nextExecution, nextGraph, graphs, now>>

\* WorkflowService.execute_workflow: get_workflow and the status check.
execute_workflow_get(p, u, w) ==
    /\ proc[p].pc = "done"
    /\ Called
    /\ \E trigger_data \in TriggerData :
        LET r == [Start("execute", u, w, 0) EXCEPT !.td = trigger_data] IN
        IF ~FoundWorkflow(w, u)
        THEN SetProc(p, Finish(r, "WorkflowNotFound"))
        ELSE IF workflows[w].status # "active"
        THEN SetProc(p, Finish(r, "WorkflowNotActive"))
        ELSE SetProc(p, [r EXCEPT !.pc = "execute_find"])
    /\ UNCHANGED <<workflows, executions, nextWorkflow, nextStep, nextExecution, nextGraph, graphs, now>>

\* Variant of n8n_execute_find without the n8n_workflow_id check: the request
\* is sent for whatever id is stored.
n8n_execute_find_unchecked(p) ==
    /\ proc[p].pc = "execute_find"
    /\ LET w == proc[p].wf IN
        IF w \notin DOMAIN workflows
        THEN SetProc(p, Finish(proc[p], "WorkflowNotFound"))
        ELSE SetProc(p, [proc[p] EXCEPT !.pc = "execute_post",
                                        !.gid = workflows[w].n8n_workflow_id,
                                        !.user = workflows[w].user_id])
    /\ UNCHANGED <<workflows, executions, nextWorkflow, nextStep, nextExecution, nextGraph, graphs, now, calls>>

\* N8NService.execute_workflow: find_one by id alone, then the
\* n8n_workflow_id check (both before the try).
n8n_execute_find(p) ==
    /\ proc[p].pc = "execute_find"
    /\ LET w == proc[p].wf IN
        IF w \notin DOMAIN workflows
        THEN SetProc(p, Finish(proc[p], "WorkflowNotFound"))
        ELSE IF ~IsSome(workflows[w].n8n_workflow_id)
        THEN SetProc(p, Finish(proc[p], "WorkflowNotDeployed"))
        ELSE SetProc(p, [proc[p] EXCEPT !.pc = "execute_post",
                                        !.gid = workflows[w].n8n_workflow_id,
                                        !.user = workflows[w].user_id])
    /\ UNCHANGED <<workflows, executions, nextWorkflow, nextStep, nextExecution, nextGraph, graphs, now, calls>>

\* What the engine may answer as result["data"]["id"], once through str():
\* the empty string (None here: "if not execution.n8n_execution_id" takes it
\* for absent) or a string that names the execution e.
EngineExecutionId(e) == {None, Some(e)}

\* POST .../execute with raise_for_status.  On a 2xx answer the
\* WorkflowExecution is built (started_at = utcnow(), status running,
\* n8n_execution_id = str(result["data"]["id"])) and handed to insert_one.
n8n_execute_post(p) ==
    /\ proc[p].pc = "execute_post"
    /\ \E o \in HttpOutcome :
        IF o = "ok"
        THEN /\ nextExecution' = nextExecution + 1
             /\ \E id \in EngineExecutionId(nextExecution + 1) :
                    SetProc(p, [proc[p] EXCEPT !.pc = "execute_insert",
                                               !.engCalled = TRUE,
                                               !.ex = nextExecution + 1,
                                               !.t0 = now, !.eid = id])
        ELSE /\ UNCHANGED nextExecution
             /\ SetProc(p, Finish([proc[p] EXCEPT !.engCalled = TRUE, !.engFailed = TRUE],
                                  "ExecuteFailed"))
    /\ UNCHANGED <<workflows, executions, nextWorkflow, nextStep, nextGraph, graphs, now, calls>>

\* Variant of n8n_execute_insert that builds the record without its status,
\* so that the model's default (pending) is stored.
n8n_execute_insert_default_status(p) ==
    /\ proc[p].pc = "execute_insert"
    /\ LET e == proc[p].ex IN
        executions' = executions @@
            (e :> [workflow_id |-> proc[p].wf, user_id |-> proc[p].user,
                   status |-> "pending", started_at |-> proc[p].t0,
                   completed_at |-> None, duration_seconds |-> None,
                   trigger_data |-> IF IsSome(proc[p].td) THEN Val(proc[p].td) ELSE "{}",
                   n8n_execution_id |-> proc[p].eid])
    /\ SetProc(p, Finish(proc[p], "started"))
    /\ UNCHANGED <<workflows, nextWorkflow, nextStep, nextExecution, nextGraph, graphs, now, calls>>

\* insert_one of the execution record; its id is returned.
n8n_execute_insert(p) ==
    /\ proc[p].pc = "execute_insert"
    /\ LET e == proc[p].ex IN
        executions' = executions @@
            (e :> [workflow_id |-> proc[p].wf, user_id |-> proc[p].user,
                   status |-> "running", started_at |-> proc[p].t0,
                   completed_at |-> None, duration_seconds |-> None,
                   trigger_data |-> IF IsSome(proc[p].td) THEN Val(proc[p].td) ELSE "{}",
                   n8n_execution_id |-> proc[p].eid])
    /\ SetProc(p, Finish(proc[p], "started"))
    /\ UNCHANGED <<workflows, nextWorkflow, nextStep, nextExecution, nextGraph, graphs, now, calls>>

\* ------------------------------------------------------- delete_workflow
\* get_workflow; False when it is not the caller's.
delete_workflow_get(p, u, w) ==
    /\ proc[p].pc = "done"
    /\ Called
    /\ LET r == Start("delete", u, w, 0) IN
        IF ~FoundWorkflow(w, u)
        THEN SetProc(p, Finish(r, "false"))
        ELSE IF IsSome(workflows[w].n8n_workflow_id)
        THEN SetProc(p, [r EXCEPT !.pc = "delete_n8n",
                                  !.gid = workflows[w].n8n_workflow_id])
        ELSE SetProc(p, [r EXCEPT !.pc = "delete_executions"])
    /\ UNCHANGED <<workflows, executions, nextWorkflow, nextStep, nextExecution, nextGraph, graphs, now>>

\* Variant of delete_n8n_workflow whose transport error is not swallowed by
\* delete_workflow.
delete_n8n_workflow_raising(p) ==
    /\ proc[p].pc = "delete_n8n"
    /\ \E o \in HttpOutcome :
        /\ IF o = "net_error"
           THEN SetProc(p, Finish([proc[p] EXCEPT !.engCalled = TRUE, !.engFailed = TRUE],
                                  "DeleteFailed"))
           ELSE SetProc(p, [proc[p] EXCEPT !.pc = "delete_executions", !.engCalled = TRUE,
                                           !.engFailed = (o # "ok")])
        /\ graphs' = IF o = "ok" THEN Remove(graphs, Val(proc[p].gid)) ELSE graphs
    /\ UNCHANGED <<workflows, executions, nextWorkflow, nextStep, nextExecution, nextGraph, now, calls>>

\* delete_n8n_workflow inside try/except-pass: DELETE without
\* raise_for_status; a transport error is raised and then swallowed.  The
\* engine drops the graph when it answers 2xx.
delete_n8n_workflow(p) ==
    /\ proc[p].pc = "delete_n8n"
    /\ \E o \in HttpOutcome :
        /\ SetProc(p, [proc[p] EXCEPT !.pc = "delete_executions", !.engCalled = TRUE,
                                      !.engFailed = (o # "ok")])
        /\ graphs' = IF o = "ok" THEN Remove(graphs, Val(proc[p].gid)) ELSE graphs
    /\ UNCHANGED <<workflows, executions, nextWorkflow, nextStep, nextExecution, nextGraph, now, calls>>

\* delete_many({"workflow_id": workflow_id}) on the executions.
delete_workflow_executions(p) ==
    /\ proc[p].pc = "delete_executions"
    /\ executions' = [e \in {x \in DOMAIN executions :
                                executions[x].workflow_id # proc[p].wf}
                      |-> executions[e]]
    /\ SetProc(p, [proc[p] EXCEPT !.pc = "delete_one"])
    /\ UNCHANGED <<workflows, nextWorkflow, nextStep, nextExecution, nextGraph, graphs, now, calls>>

\* delete_one by id and user_id; returns deleted_count > 0.
delete_workflow_one(p) ==
    /\ proc[p].pc = "delete_one"
    /\ LET w == proc[p].wf IN
        IF FoundWorkflow(w, proc[p].user)
        THEN /\ workflows' = Remove(workflows, w)
             /\ SetProc(p, Finish(proc[p], "true"))
        ELSE /\ UNCHANGED workflows
             /\ SetProc(p, Finish(proc[p], "false"))
    /\ UNCHANGED <<executions, nextWorkflow, nextStep, nextExecution, nextGraph, graphs, now, calls>>

\* -------------------------------------------------- get_execution_status
\* Variant of status_mapping that passes a status outside the table on as the
\* execution is still running (status_mapping.get without the default).
status_mapping_open(s) ==
    CASE s = "running"  -> "running"
      [] s = "success"  -> "success"
      [] s = "failed"   -> "failed"
      [] s = "canceled" -> "cancelled"
      [] s = "waiting"  -> "pending"
      [] OTHER          -> "running"

\* status_mapping.get(n8n_status, ExecutionStatus.FAILED)
status_mapping(s) ==
    CASE s = "running"  -> "running"
      [] s = "success"  -> "success"
      [] s = "failed"   -> "failed"
      [] s = "canceled" -> "cancelled"
      [] s = "waiting"  -> "pending"
      [] OTHER          -> "failed"

\* Variant of Reported in which a reconciliation that reports failed ends the
\* task's loop, as an exception raised outside the loop's try would.
Reported_aborting(r, res) ==
    IF r.op = "monitor" /\ Len(r.queue) > 1 /\ res # "failed"
    THEN [r EXCEPT !.pc = "status_find", !.queue = Tail(r.queue),
                   !.ex = r.queue[2], !.result = res,
                   !.t0 = 0, !.n8n = "none", !.our = "none", !.fin = None]
    ELSE Finish(r, res)

\* The end of one N8NService.get_execution_status call with reported status
\* res: the caller's request returns; the monitor task goes on with the next
\* execution of its list (an exception raised for one item is caught inside
\* the loop).
Reported(r, res) ==
    IF r.op = "monitor" /\ Len(r.queue) > 1
    THEN [r EXCEPT !.pc = "status_find", !.queue = Tail(r.queue),
                   !.ex = r.queue[2], !.result = res,
                   !.t0 = 0, !.n8n = "none", !.our = "none", !.fin = None]
    ELSE Finish(r, res)

\* WorkflowService.get_execution_status: find_one by id and user_id.
get_execution_status_get(p, u, e) ==
    /\ proc[p].pc = "done"
    /\ Called
    /\ LET r == Start("status", u, 0, e) IN
        IF e \in DOMAIN executions /\ executions[e].user_id = u
        THEN SetProc(p, [r EXCEPT !.pc = "status_find"])
        ELSE SetProc(p, Finish(r, "ExecutionNotFound"))
    /\ UNCHANGED <<workflows, executions, nextWorkflow, nextStep, nextExecution, nextGraph, graphs, now>>

\* monitor_workflow_executions_task: find({"status": "running"}).to_list(100),
\* then get_execution_status for each in turn.
monitor_find(p) ==
    /\ proc[p].pc = "done"
    /\ Called
    /\ LET Running(e) == e \in DOMAIN executions /\ executions[e].status = "running"
           found == SelectSeq([i \in 1..nextExecution |-> i], Running)
           r == Start("monitor", "none", 0, 0)
       IN IF found = <<>>
          THEN SetProc(p, Finish(r, "polled"))
          ELSE SetProc(p, [r EXCEPT !.pc = "status_find", !.queue = found,
                                    !.ex = found[1]])
    /\ UNCHANGED <<workflows, executions, nextWorkflow, nextStep, nextExecution, nextGraph, graphs, now>>

\* N8NService.get_execution_status: find_one by id alone, then the
\* n8n_execution_id check.
n8n_status_find(p) ==
    /\ proc[p].pc = "status_find"
    /\ LET e == proc[p].ex IN
        IF e \notin DOMAIN executions
        THEN SetProc(p, Reported(proc[p], "ExecutionNotFound"))
        ELSE IF ~IsSome(executions[e].n8n_execution_id)
        THEN SetProc(p, Reported(proc[p], executions[e].status))
        ELSE SetProc(p, [proc[p] EXCEPT !.pc = "status_get",
                                        !.t0 = executions[e].started_at])
    /\ UNCHANGED <<workflows, executions, nextWorkflow, nextStep, nextExecution, nextGraph, graphs, now, calls>>

\* What the engine may answer for finishedAt: nothing, or an instant.
FinishedAt == {None} \cup {Some(t) : t \in Times}

\* Variant of n8n_status_get_fails whose except branch stores the failed
\* status it reports.
n8n_status_get_fails_stored(p) ==
    /\ proc[p].pc = "status_get"
    /\ \E failed \in BOOLEAN :
        SetProc(p, Reported([proc[p] EXCEPT !.engCalled = TRUE, !.engFailed = failed],
                            "failed"))
    /\ LET e == proc[p].ex IN
        executions' = IF e \in DOMAIN executions
                      THEN [executions EXCEPT ![e].status = "failed"]
                      ELSE executions
    /\ UNCHANGED <<workflows, nextWorkflow, nextStep, nextExecution, nextGraph, graphs, now, calls>>

\* GET /api/v1/executions/{id} with raise_for_status fails, or the answer's
\* finishedAt is written with a UTC offset ("...Z"): it parses to an aware
\* datetime, and subtracting the naive started_at from it raises TypeError.
\* Every exception is caught: {"status": failed} is returned, nothing written.
n8n_status_get_fails(p) ==
    /\ proc[p].pc = "status_get"
    /\ \E failed \in BOOLEAN :
        SetProc(p, Reported([proc[p] EXCEPT !.engCalled = TRUE, !.engFailed = failed],
                            "failed"))
    /\ UNCHANGED <<workflows, executions, nextWorkflow, nextStep, nextExecution, nextGraph, graphs, now, calls>>

\* The GET answers 2xx with status s and finishedAt f (absent, or written
\* without an offset): update_data is built from it.
n8n_status_get(p, s, f) ==
    /\ proc[p].pc = "status_get"
    /\ SetProc(p, [proc[p] EXCEPT !.pc = "status_update", !.engCalled = TRUE,
                                  !.n8n = s, !.our = status_mapping(s), !.fin = f])
    /\ UNCHANGED <<workflows, executions, nextWorkflow, nextStep, nextExecution, nextGraph, graphs, now, calls>>

\* update_one by id alone, $set update_data: status always; completed_at and
\* duration_seconds when the engine gave a finishedAt.
n8n_status_update(p) ==
    /\ proc[p].pc = "status_update"
    /\ LET e == proc[p].ex
           r == proc[p]
       IN /\ executions' =
                IF e \notin DOMAIN executions THEN executions
                ELSE IF IsSome(r.fin)
                THEN [executions EXCEPT ![e].status = r.our,
                                        ![e].completed_at = r.fin,
                                        ![e].duration_seconds = Some(Val(r.fin) - r.t0)]
                ELSE [executions EXCEPT ![e].status = r.our]
          /\ SetProc(p, Reported(r, r.our))
    /\ UNCHANGED <<workflows, nextWorkflow, nextStep, nextExecution, nextGraph, graphs, now, calls>>

\* ------------------------------------------- cleanup_old_executions_task
\* Variant of cleanup_old_executions_task that deletes the old executions
\* that have finished, and keeps the ones still running or pending.
cleanup_finished_executions_task(p) ==
    /\ proc[p].pc = "done"
    /\ Called
    /\ LET cutoff_date == now - RetentionDays IN
        executions' = [e \in {x \in DOMAIN executions :
                                 \/ ~(executions[x].started_at < cutoff_date)
                                 \/ executions[x].status \in {"running", "pending"}}
                       |-> executions[e]]
    /\ SetProc(p, Finish(Start("cleanup", "none", 0, 0), "cleaned"))
    /\ UNCHANGED <<workflows, nextWorkflow, nextStep, nextExecution, nextGraph, graphs, now>>

\* cutoff_date = utcnow() - timedelta(days=30), then
\* delete_many({"started_at": {"$lt": cutoff_date}}).
cleanup_old_executions_task(p) ==
    /\ proc[p].pc = "done"
    /\ Called
    /\ LET cutoff_date == now - RetentionDays IN
        executions' = [e \in {x \in DOMAIN executions :
                                 ~(executions[x].started_at < cutoff_date)}
                       |-> executions[e]]
    /\ SetProc(p, Finish(Start("cleanup", "none", 0, 0), "cleaned"))
    /\ UNCHANGED <<workflows, nextWorkflow, nextStep, nextExecution, nextGraph, graphs, now>>

\* ------------------------------------------- execute and deploy as tasks
\* An attempt of execute_workflow_task, whose request has n retries behind
\* it, up to the first await of execute_workflow: the worker calls
\* workflow_service.execute_workflow(workflow_id, user_id, trigger_data).
execute_workflow_task_run(p, u, w, n) ==
    /\ Called
    /\ \E trigger_data \in TriggerData :
        LET r == [Start("execute", u, w, 0) EXCEPT
                    !.td = trigger_data, !.task = "execute_workflow_task",
                    !.targs = <<u, w>>, !.retries = n, !.tstate = "running"] IN
        IF ~FoundWorkflow(w, u)
        THEN SetProc(p, Finish(r, "WorkflowNotFound"))
        ELSE IF workflows[w].status # "active"
        THEN SetProc(p, Finish(r, "WorkflowNotActive"))
        ELSE SetProc(p, [r EXCEPT !.pc = "execute_find"])
    /\ UNCHANGED <<workflows, executions, nextWorkflow, nextStep, nextExecution, nextGraph, graphs, now>>

\* execute_workflow_task is sent and a free worker takes it: its first
\* attempt, self.request.retries = 0.
execute_workflow_task(p, u, w) ==
    /\ proc[p].pc = "done"
    /\ proc[p].tstate \notin {"running", "retry"}
    /\ execute_workflow_task_run(p, u, w, 0)

\* The countdown of a retry is over: the worker runs the task again with the
\* same arguments.
execute_workflow_task_retry(p) ==
    /\ proc[p].pc = "done"
    /\ proc[p].task = "execute_workflow_task"
    /\ proc[p].tstate = "retry"
    /\ execute_workflow_task_run(p, proc[p].targs[1], proc[p].targs[2],
                                 proc[p].retries)

\* Variant of execute_workflow_task_except that retries whenever the call
\* failed, without the test on self.request.retries.
execute_workflow_task_except_unbounded(p) ==
    /\ proc[p].pc = "done"
    /\ proc[p].task = "execute_workflow_task"
    /\ proc[p].tstate = "running"
    /\ IF proc[p].result = "started"
       THEN SetProc(p, [proc[p] EXCEPT !.tstate = "success"])
       ELSE SetProc(p, [proc[p] EXCEPT !.tstate = "retry", !.retries = @ + 1])
    /\ UNCHANGED <<workflows, executions, nextWorkflow, nextStep, nextExecution, nextGraph, graphs, now, calls>>

\* execute_workflow_task after execute_workflow returned or raised: the
\* result, or in the except branch self.retry(countdown=120, max_retries=2)
\* while self.request.retries < 2, else the exception is raised again.
execute_workflow_task_except(p) ==
    /\ proc[p].pc = "done"
    /\ proc[p].task = "execute_workflow_task"
    /\ proc[p].tstate = "running"
    /\ IF proc[p].result = "started"
       THEN SetProc(p, [proc[p] EXCEPT !.tstate = "success"])
       ELSE IF proc[p].retries < 2
       THEN SetProc(p, [proc[p] EXCEPT !.tstate = "retry", !.retries = @ + 1])
       ELSE SetProc(p, [proc[p] EXCEPT !.tstate = "failure"])
    /\ UNCHANGED <<workflows, executions, nextWorkflow, nextStep, nextExecution, nextGraph, graphs, now, calls>>

\* deploy_workflow_task is sent and a free worker takes it: the worker calls
\* workflow_service.deploy_workflow(workflow_id, user_id).
deploy_workflow_task(p, u, w) ==
    /\ proc[p].pc = "done"
    /\ proc[p].tstate \notin {"running", "retry"}
    /\ Called
    /\ LET r == [Start("deploy", u, w, 0) EXCEPT
                   !.task = "deploy_workflow_task", !.targs = <<u, w>>,
                   !.tstate = "running"] IN
        IF ~FoundWorkflow(w, u)
        THEN SetProc(p, Finish(r, "WorkflowNotFound"))
        ELSE IF workflows[w].status = "active"
        THEN SetProc(p, Finish(r, "WorkflowAlreadyActive"))
        ELSE SetProc(p, [r EXCEPT !.pc = "create_post",
                                  !.seen = workflows[w].status,
                                  !.tt = workflows[w].trigger_type,
                                  !.steps = workflows[w].steps])
    /\ UNCHANGED <<workflows, executions, nextWorkflow, nextStep, nextExecution, nextGraph, graphs, now>>

\* deploy_workflow_task after deploy_workflow returned or raised: the result,
\* or the exception raised again; the task does not retry.
deploy_workflow_task_except(p) ==
    /\ proc[p].pc = "done"
    /\ proc[p].task = "deploy_workflow_task"
    /\ proc[p].tstate = "running"
    /\ SetProc(p, [proc[p] EXCEPT !.tstate = IF proc[p].result = "deployed"
                                             THEN "success" ELSE "failure"])
    /\ UNCHANGED <<workflows, executions, nextWorkflow, nextStep, nextExecution, nextGraph, graphs, now, calls>>

\* --------------------------------------------------------- specification
Step(p) ==
    \/ \E u \in Users, tt \in TriggerType : create_workflow(p, u, tt)
    \/ \E u \in Users, w \in 1..(nextWorkflow + 1), st \in WorkflowStatus \cup {"none"} :
          update_workflow(p, u, w, st)
    \/ \E u \in Users, w \in 1..(nextWorkflow + 1) : pause_workflow(p, u, w)
    \/ \E u \in Users, w \in 1..(nextWorkflow + 1) : resume_workflow(p, u, w)
    \/ \E u \in Users, w \in 1..(nextWorkflow + 1) : deploy_workflow_get(p, u, w)
    \/ create_n8n_workflow_post(p)
    \/ activate_n8n_workflow(p)
    \/ deploy_workflow_update(p)
    \/ get_workflow_webhook_url(p)
    \/ deploy_workflow_except(p)
    \/ \E u \in Users, w \in 1..(nextWorkflow + 1) : execute_workflow_get(p, u, w)
    \/ n8n_execute_find(p)
    \/ n8n_execute_post(p)
    \/ n8n_execute_insert(p)
    \/ \E u \in Users, w \in 1..(nextWorkflow + 1) : delete_workflow_get(p, u, w)
    \/ delete_n8n_workflow(p)
    \/ delete_workflow_executions(p)
    \/ delete_workflow_one(p)
    \/ \E u \in Users, e \in 1..(nextExecution + 1) : get_execution_status_get(p, u, e)
    \/ monitor_find(p)
    \/ n8n_status_find(p)
    \/ n8n_status_get_fails(p)
    \/ \E s \in EngineStatus, f \in FinishedAt : n8n_status_get(p, s, f)
    \/ n8n_status_update(p)
    \/ cleanup_old_executions_task(p)

\* Handlers interleave at their awaits.
Next == Tick \/ \E p \in Procs : Step(p)

Spec == Init /\ [][Next]_vars

\* One handler at a time: every call runs to its end before the next starts.
SeqNext == Tick \/ Step("p1")

SeqSpec == Init /\ [][SeqNext]_vars

\* ------------------------------------------- editing and deploying steps
\* The step handlers write the steps of a workflow and nothing else, and the
\* only reader of the steps is deploy_workflow's translation: the runs of
\* StepSpec create workflows, edit their steps and deploy them, one call at a
\* time.
StepNext ==
    \/ \E u \in Users, tt \in TriggerType : create_workflow("p1", u, tt)
    \/ \E u \in Users, w \in 1..(nextWorkflow + 1), body \in StepBodies :
          add_workflow_step_find("p1", u, w, body)
    \/ add_workflow_step_push("p1")
    \/ \E u \in Users, w \in 1..(nextWorkflow + 1), id \in 1..(nextStep + 1) :
          \/ \E v \in OrderUpdates : update_workflow_step("p1", u, w, id, "order", v)
          \/ \E v \in TimeoutUpdates :
                update_workflow_step("p1", u, w, id, "timeout_seconds", v)
          \/ remove_workflow_step("p1", u, w, id)
    \/ \E u \in Users, w \in 1..(nextWorkflow + 1) : deploy_workflow_get("p1", u, w)
    \/ create_n8n_workflow_post("p1")
    \/ activate_n8n_workflow("p1")
    \/ deploy_workflow_update("p1")
    \/ get_workflow_webhook_url("p1")
    \/ deploy_workflow_except("p1")

StepSpec == Init /\ [][StepNext]_vars

\* ------------------------------------------------- every operation in turn
\* All the operations of WorkflowService, the reads included, one call at a
\* time.
OwnerNext ==
    \/ Step("p1")
    \/ StepNext
    \/ \E u \in Users, w \in 1..(nextWorkflow + 1) : get_workflow("p1", u, w)
    \/ \E u \in Users, w \in 1..(nextWorkflow + 1) :
          get_workflow_executions("p1", u, w)

OwnerSpec == Init /\ [][OwnerNext]_vars

\* ------------------------------------------------------ the task worker
\* The worker p1 runs execute and deploy tasks, one at a time, each attempt
\* to its end; the requests of p2 create, resume and pause workflows in
\* between.
TaskNext ==
    \/ \E u \in Users, tt \in TriggerType : create_workflow("p2", u, tt)
    \/ \E u \in Users, w \in 1..(nextWorkflow + 1) : resume_workflow("p2", u, w)
    \/ \E u \in Users, w \in 1..(nextWorkflow + 1) : pause_workflow("p2", u, w)
    \/ \E u \in Users, w \in 1..(nextWorkflow + 1) : execute_workflow_task("p1", u, w)
    \/ execute_workflow_task_retry("p1")
    \/ n8n_execute_find("p1")
    \/ n8n_execute_post("p1")
    \/ n8n_execute_insert("p1")
    \/ execute_workflow_task_except("p1")
    \/ \E u \in Users, w \in 1..(nextWorkflow + 1) : deploy_workflow_task("p1", u, w)
    \/ create_n8n_workflow_post("p1")
    \/ activate_n8n_workflow("p1")
    \/ deploy_workflow_update("p1")
    \/ get_workflow_webhook_url("p1")
    \/ deploy_workflow_except("p1")
    \/ deploy_workflow_task_except("p1")

TaskSpec == Init /\ [][TaskNext]_vars

\* ------------------------------------------------ adding steps concurrently
\* Two requests at a time create workflows and add steps to them: each
\* add_workflow_step reads the workflow, then pushes, and the other request
\* may run in between.
AddNext ==
    \E p \in Procs :
        \/ \E u \in Users, tt \in TriggerType : create_workflow(p, u, tt)
        \/ \E u \in Users, w \in 1..(nextWorkflow + 1), body \in StepBodies :
              add_workflow_step_find(p, u, w, body)
        \/ add_workflow_step_push(p)

AddSpec == Init /\ [][AddNext]_vars

\* ----------------------------------------------- the retention job alone
\* The instants a stored execution may have started at: those of Times, and
\* the one exactly RetentionDays before the last of them.
StartedAt == Times \cup {1}

\* An execution record as execute_workflow and the reconciliations leave it.
StoredExecution(st, t) ==
    [workflow_id |-> 1, user_id |-> "u1", status |-> st, started_at |-> t,
     completed_at |-> None, duration_seconds |-> None,
     trigger_data |-> "{}", n8n_execution_id |-> Some(1)]

\* The retention job runs on a database that holds one deployed workflow and
\* up to MaxStored executions of it, of any status and age.
RetentionInit ==
    /\ workflows = (1 :> [user_id |-> "u1", status |-> "active",
                          n8n_workflow_id |-> Some(1), trigger_type |-> "manual",
                          steps |-> <<>>])
    /\ nextWorkflow = 1
    /\ nextStep = 0
    /\ nextGraph = 1
    /\ graphs = (1 :> _convert_to_n8n_format("manual", <<>>))
    /\ nextExecution \in 0..MaxStored
    /\ executions \in [1..nextExecution ->
                          {StoredExecution(st, t) : st \in ExecutionStatus, t \in StartedAt}]
    /\ now \in Times
    /\ calls = 0
    /\ proc = [p \in Procs |-> Idle]

RetentionNext == Tick \/ cleanup_old_executions_task("p1")

RetentionSpec == RetentionInit /\ [][RetentionNext]_vars

\* ------------------------------------------------ the poll job, for ever
\* The scheduler starts monitor_workflow_executions_task again and again:
\* the task begins with its find on db.workflow_executions.
monitor_workflow_executions_task(p) ==
    /\ proc[p].pc = "done"
    /\ SetProc(p, [Start("monitor", "none", 0, 0) EXCEPT !.pc = "monitor_find"])
    /\ UNCHANGED <<workflows, executions, nextWorkflow, nextStep, nextExecution, nextGraph, graphs, now, calls>>

\* find({"status": "running"}).to_list(100) of the task returns: the loop
\* starts on the first execution found, or the task ends.
monitor_find_running(p) ==
    /\ proc[p].pc = "monitor_find"
    /\ LET Running(e) == e \in DOMAIN executions /\ executions[e].status = "running"
           found == SelectSeq([i \in 1..nextExecution |-> i], Running)
       IN IF found = <<>>
          THEN SetProc(p, Finish(proc[p], "polled"))
          ELSE SetProc(p, [proc[p] EXCEPT !.pc = "status_find", !.queue = found,
                                          !.ex = found[1]])
    /\ UNCHANGED <<workflows, executions, nextWorkflow, nextStep, nextExecution, nextGraph, graphs, now, calls>>

\* The engine has the dispatched runs in progress at first, and has ended
\* them all once time has passed.
EngineFinished == now > 0

\* What GET /api/v1/executions/{id} answers, status and finishedAt: running
\* or waiting without finishedAt while the run is in progress, a terminal
\* status with its finishedAt afterwards.
EngineAnswers ==
    IF EngineFinished
    THEN {<<s, Some(now)>> : s \in {"success", "failed", "canceled", "crashed"}}
    ELSE {<<s, None>> : s \in {"running", "waiting"}}

\* The database holds one deployed workflow and up to MaxStored executions
\* of it as execute_workflow leaves them: running since the instant 0.
LiveInit ==
    /\ workflows = (1 :> [user_id |-> "u1", status |-> "active",
                          n8n_workflow_id |-> Some(1), trigger_type |-> "manual",
                          steps |-> <<>>])
    /\ nextWorkflow = 1
    /\ nextStep = 0
    /\ nextGraph = 1
    /\ graphs = (1 :> _convert_to_n8n_format("manual", <<>>))
    /\ nextExecution \in 1..MaxStored
    /\ executions = [e \in 1..nextExecution |->
                        [StoredExecution("running", 0) EXCEPT
                            !.n8n_execution_id = Some(e)]]
    /\ now = 0
    /\ calls = 0
    /\ proc = [p \in Procs |-> Idle]

\* One run of the poll job, step by step.
Poll(p) ==
    \/ monitor_workflow_executions_task(p)
    \/ monitor_find_running(p)
    \/ n8n_status_find(p)
    \/ \E a \in EngineAnswers : n8n_status_get(p, a[1], a[2])
    \/ n8n_status_update(p)

LiveNext == Tick \/ Poll("p1")

\* The poll job is scheduled for ever and each of its steps is taken; time
\* passes.
LiveSpec == LiveInit /\ [][LiveNext]_vars /\ WF_vars(Tick) /\ WF_vars(Poll("p1"))

\* ================================================================ claims
\* The statuses an execution does not leave: success, failed, cancelled.
TerminalStatus == {"success", "failed", "cancelled"}

\* A call of p ends in this step.
Returns(p) == proc[p].pc # "done" /\ proc'[p].pc = "done"

\* ---- C1
\* C1: execute_workflow on a workflow of the caller whose stored status is not
\* active (draft, paused or error) ends at once with "Workflow is not active",
\* has sent nothing to the engine and leaves the executions as they were.
C1_ExecuteNotActive ==
    [][\A p \in Procs, u \in Users, w \in WorkflowIds :
        (/\ FoundWorkflow(w, u)
         /\ workflows[w].status # "active"
         /\ execute_workflow_get(p, u, w))
        => (/\ proc'[p].pc = "done"
            /\ proc'[p].result = "WorkflowNotActive"
            /\ ~proc'[p].engCalled
            /\ executions' = executions)]_vars

\* An execute call was refused for a workflow that is stored and not active,
\* while an execution record exists.
C1_Witness ==
    \E p \in Procs :
        /\ proc[p].op = "execute" /\ proc[p].result = "WorkflowNotActive"
        /\ \E w \in DOMAIN workflows : workflows[w].status \in {"paused", "error"}
        /\ DOMAIN executions # {}

\* ---- C2
\* C2: a deploy_workflow that read its workflow in status draft ends either
\* returning "deployed" with the stored status active, a stored
\* n8n_workflow_id and no failed engine request, or raising with the stored
\* status error; every failed engine request of the deploy leads to the
\* second.  (One call at a time.)
C2_DeployTwoOutcomes ==
    [][\A p \in Procs :
        (proc[p].op = "deploy" /\ proc[p].seen = "draft" /\ Returns(p))
        => LET w == proc[p].wf IN
           /\ w \in DOMAIN workflows'
           /\ \/ /\ proc'[p].result = "deployed"
                 /\ workflows'[w].status = "active"
                 /\ IsSome(workflows'[w].n8n_workflow_id)
                 /\ ~proc'[p].engFailed
              \/ /\ proc'[p].result = "DeployFailed"
                 /\ workflows'[w].status = "error"]_vars

\* ---- C3
\* C3: a workflow whose status is active has been deployed: deploy_workflow's
\* success update is the only writer of n8n_workflow_id, so an active
\* workflow has one.
C3_ActiveOnlyByDeploy ==
    \A w \in DOMAIN workflows :
        workflows[w].status = "active" => IsSome(workflows[w].n8n_workflow_id)

\* ---- C4
\* C4: once the stored status of an execution is success, failed or cancelled,
\* no step changes it while the record exists.
C4_TerminalStatusStable ==
    [][\A e \in DOMAIN executions :
        (executions[e].status \in TerminalStatus /\ e \in DOMAIN executions')
        => executions'[e].status = executions[e].status]_vars

\* ---- C5
\* C5: the write of a reconciliation that finds the record already terminal
\* leaves completed_at and duration_seconds as they are.
C5_ReconcileIdempotent ==
    [][\A p \in Procs :
        LET e == proc[p].ex IN
        (/\ proc[p].pc = "status_update"
         /\ e \in DOMAIN executions
         /\ executions[e].status \in TerminalStatus
         /\ e \in DOMAIN executions')
        => /\ executions'[e].completed_at = executions[e].completed_at
           /\ executions'[e].duration_seconds = executions[e].duration_seconds]_vars

\* ---- C6
\* C6: the write of a poll cycle is conditional on the record still being
\* non-terminal: when another reconciliation made the record terminal after
\* the cycle listed it as running, the cycle's write changes nothing.
C6_ConditionalWrite ==
    [][\A p \in Procs :
        LET e == proc[p].ex IN
        (/\ proc[p].op = "monitor"
         /\ proc[p].pc = "status_update"
         /\ proc'[p] # proc[p]
         /\ e \in DOMAIN executions
         /\ executions[e].status \in TerminalStatus)
        => executions' = executions]_vars

\* ---- C7
\* C7: when an execution record is inserted, the stored status of its
\* workflow (if the workflow is still stored) is active.
C7_DispatchOnlyWhileActive ==
    [][\A e \in DOMAIN executions' \ DOMAIN executions :
        LET w == executions'[e].workflow_id IN
        w \in DOMAIN workflows => workflows[w].status = "active"]_vars

\* ---- C8
\* C8: the workflow_id of every stored execution is the id of a stored
\* workflow.
C8_ReferentialIntegrity ==
    \A e \in DOMAIN executions : executions[e].workflow_id \in DOMAIN workflows

\* ---- C9
\* C9: a delete_workflow that found the caller's workflow returns True, and
\* when it returns neither the workflow nor any execution of it is stored,
\* whatever became of the engine's DELETE.  (One call at a time.)
C9_DeleteCascades ==
    [][\A p \in Procs :
        (proc[p].op = "delete" /\ Returns(p))
        => LET w == proc[p].wf IN
           /\ proc'[p].result = "true"
           /\ w \notin DOMAIN workflows'
           /\ \A e \in DOMAIN executions' : executions'[e].workflow_id # w]_vars

\* A delete has returned True after its engine request failed, and the
\* execution that had been dispatched is gone with the workflow.
C9_Witness ==
    \E p \in Procs :
        /\ proc[p].op = "delete" /\ proc[p].result = "true"
        /\ proc[p].engCalled /\ proc[p].engFailed
        /\ nextExecution > 0 /\ DOMAIN executions = {}
        /\ nextWorkflow > 0 /\ DOMAIN workflows = {}

\* ---- C10
\* C10: deploy_workflow on a workflow of the caller whose stored status is
\* active ends at once with "Workflow is already active", has sent nothing
\* to the engine and leaves the workflow documents as they were.
C10_DeployAlreadyActive ==
    [][\A p \in Procs, u \in Users, w \in WorkflowIds :
        (/\ FoundWorkflow(w, u)
         /\ workflows[w].status = "active"
         /\ deploy_workflow_get(p, u, w))
        => (/\ proc'[p].pc = "done"
            /\ proc'[p].result = "WorkflowAlreadyActive"
            /\ ~proc'[p].engCalled
            /\ workflows' = workflows)]_vars

\* A deploy was refused as already active and the workflow is still active
\* with its engine id.
C10_Witness ==
    \E p \in Procs :
        /\ proc[p].op = "deploy" /\ proc[p].result = "WorkflowAlreadyActive"
        /\ \E w \in DOMAIN workflows :
            workflows[w].status = "active" /\ IsSome(workflows[w].n8n_workflow_id)

\* ---- C11
\* C11: the write of a reconciliation that got a terminal status from the
\* engine for a record that is not terminal stores a terminal status,
\* completed_at = the engine's finishedAt, or the current time when the
\* engine gave none, and duration_seconds = completed_at - started_at.
C11_TerminalSnapshot ==
    [][\A p \in Procs :
        LET e == proc[p].ex IN
        (/\ n8n_status_update(p)
         /\ e \in DOMAIN executions
         /\ executions[e].status \notin TerminalStatus
         /\ proc[p].our \in TerminalStatus)
        => /\ executions'[e].status \in TerminalStatus
           /\ executions'[e].completed_at =
                 (IF IsSome(proc[p].fin) THEN proc[p].fin ELSE Some(now))
           /\ executions'[e].duration_seconds =
                 Some(Val(executions'[e].completed_at) - executions[e].started_at)]_vars

\* ---- C12
\* The translation table of the specification.
LocalStatusOf(s) ==
    IF s = "running" THEN "running"
    ELSE IF s = "success" THEN "success"
    ELSE IF s = "failed" THEN "failed"
    ELSE IF s = "canceled" THEN "cancelled"
    ELSE IF s = "waiting" THEN "pending"
    ELSE "failed"

\* C12: the status a reconciliation takes from the engine's answer is the
\* table's translation of the engine status (failed for a status outside the
\* table), and that is the status its write stores.
C12_StatusTranslation ==
    [][\A p \in Procs :
        /\ \A s \in EngineStatus, f \in FinishedAt :
              n8n_status_get(p, s, f) => proc'[p].our = LocalStatusOf(s)
        /\ (n8n_status_update(p) /\ proc[p].ex \in DOMAIN executions)
              => executions'[proc[p].ex].status = LocalStatusOf(proc[p].n8n)]_vars

\* A reconciliation of a stored running execution got a status outside the
\* table from the engine and is about to store failed.
C12_Witness ==
    \E p \in Procs :
        /\ proc[p].pc = "status_update"
        /\ proc[p].n8n = "crashed" /\ proc[p].our = "failed"
        /\ proc[p].ex \in DOMAIN executions
        /\ executions[proc[p].ex].status = "running"

\* ---- C13
\* C13: a reconciliation that finds its record without an engine execution id
\* reports the status failed, whatever status the record has.
C13_NoEngineIdReportsFailed ==
    [][\A p \in Procs :
        LET e == proc[p].ex IN
        (/\ n8n_status_find(p)
         /\ e \in DOMAIN executions
         /\ ~IsSome(executions[e].n8n_execution_id))
        => proc'[p].result = "failed"]_vars

C16_RetentionExact ==
    [][\A p \in Procs :
        cleanup_old_executions_task(p)
        => /\ DOMAIN executions' =
                 {e \in DOMAIN executions : ~(executions[e].started_at < now - 30)}
           /\ \A e \in DOMAIN executions' : executions'[e] = executions[e]
           /\ workflows' = workflows
           /\ \A e \in DOMAIN executions' : ~(executions'[e].started_at < now' - 30)]_vars

\* The retention job has deleted the first of two executions and kept the
\* second, a finished one that started exactly 30 days before now.
C16_Witness ==
    \E p \in Procs :
        /\ proc[p].op = "cleanup" /\ proc[p].result = "cleaned"
        /\ nextExecution = 2 /\ DOMAIN executions = {2}
        /\ executions[2].started_at = now - 30
        /\ executions[2].status = "success"

\* ---- C17
\* The steps have pairwise distinct orders and pairwise distinct names, none
\* of them the name of the trigger node.
DistinctSteps(trigger_name, st) ==
    \A i \in 1..Len(st) :
        /\ st[i].name # trigger_name
        /\ \A j \in 1..Len(st) :
              i # j => st[i].order # st[j].order /\ st[i].name # st[j].name

\* C17: the graph sent to the engine for a workflow whose steps have distinct
\* names and orders chains them in ascending order: the trigger is connected
\* to the step with the smallest order and every step to the step with the
\* next larger order, wherever the steps are in the stored list.
C17_ChainInAscendingOrder ==
    [][\A p \in Procs :
        LET st == proc[p].steps
            g == graphs'[nextGraph']
            conn == g.connections
            trigger_name == g.nodes[1].name
        IN (/\ create_n8n_workflow_post(p)
            /\ nextGraph' # nextGraph
            /\ DistinctSteps(trigger_name, st))
           => \A i \in 1..Len(st) :
                IF \A j \in 1..Len(st) : st[i].order <= st[j].order
                THEN /\ trigger_name \in DOMAIN conn
                     /\ conn[trigger_name] = <<st[i].name>>
                ELSE \E j \in 1..Len(st) :
                        /\ st[j].order < st[i].order
                        /\ \A k \in 1..Len(st) :
                              ~(st[j].order < st[k].order /\ st[k].order < st[i].order)
                        /\ st[j].name \in DOMAIN conn
                        /\ conn[st[j].name] = <<st[i].name>>]_vars

\* ---- C18
\* The names met by following the first destination k times from a node.
RECURSIVE Walk(_, _, _)
Walk(conn, from, k) ==
    IF k = 0 \/ from \notin DOMAIN conn THEN <<>>
    ELSE <<conn[from][1]>> \o Walk(conn, conn[from][1], k - 1)

\* C18: the graph sent to the engine for a workflow with n steps, whatever
\* their names, has n+1 nodes and n connection sources, each with one
\* destination that is not the source itself, and the walk from the trigger
\* along the connections meets every step node exactly once.
C18_SingleLinearChain ==
    [][\A p \in Procs :
        LET n == Len(proc[p].steps)
            g == graphs'[nextGraph']
            conn == g.connections
            walk == Walk(conn, g.nodes[1].name, n)
        IN (create_n8n_workflow_post(p) /\ nextGraph' # nextGraph)
           => /\ Len(g.nodes) = n + 1
              /\ Cardinality(DOMAIN conn) = n
              /\ \A src \in DOMAIN conn : Len(conn[src]) = 1 /\ conn[src][1] # src
              /\ Len(walk) = n
              /\ \A i \in 2..(n + 1) :
                    Cardinality({j \in 1..n : walk[j] = g.nodes[i].name}) = 1]_vars

\* ---- C19
\* C19: the orders of the steps of every stored workflow are pairwise
\* distinct and are exactly 0..k-1 for its k steps.
C19_OrdersDense ==
    \A w \in DOMAIN workflows :
        LET st == workflows[w].steps IN
        /\ \A i, j \in 1..Len(st) : i # j => st[i].order # st[j].order
        /\ {st[i].order : i \in 1..Len(st)} = 0..(Len(st) - 1)

\* ---- C20
\* The validation rules of the specification.
ValidStep(st) ==
    /\ st.order >= 0
    /\ st.timeout_seconds > 0
    /\ st.on_error \in {"stop", "continue", "retry"}
    /\ st.action_type = "integration_action" => IsSome(st.integration_id)

\* C20: no stored workflow has a step that the validation rejects: a
\* negative order, a timeout_seconds that is not positive, an on_error
\* outside stop, continue, retry, or an integration action without its
\* integration_id.
C20_StoredStepsValid ==
    \A w \in DOMAIN workflows :
        \A i \in 1..Len(workflows[w].steps) : ValidStep(workflows[w].steps[i])

\* ---- C21
\* C21: a deploy_workflow one of whose engine requests failed, the activation
\* included, does not end with its workflow stored as active.
C21_ActivationFailureSurfaced ==
    [][\A p \in Procs :
        (proc[p].op = "deploy" /\ Returns(p) /\ proc'[p].engFailed)
        => LET w == proc[p].wf IN
           /\ proc'[p].result = "DeployFailed"
           /\ w \in DOMAIN workflows' => workflows'[w].status # "active"]_vars

\* ---- C23
\* C23: execute_workflow on a workflow stored as active without an
\* n8n_workflow_id ends with "Workflow not deployed to n8n", has sent nothing
\* to the engine and leaves the executions as they were.
C23_ExecuteNotDeployed ==
    [][\A p \in Procs :
        LET w == proc[p].wf IN
        (/\ w \in DOMAIN workflows
         /\ workflows[w].status = "active"
         /\ ~IsSome(workflows[w].n8n_workflow_id)
         /\ n8n_execute_find(p))
        => /\ proc'[p].pc = "done"
           /\ proc'[p].result = "WorkflowNotDeployed"
           /\ ~proc'[p].engCalled
           /\ executions' = executions
           /\ nextExecution' = nextExecution]_vars

\* An execute call ended as not deployed on a workflow that is stored active
\* and has no engine id (resumed without ever being deployed).
C23_Witness ==
    \E p \in Procs :
        /\ proc[p].op = "execute" /\ proc[p].result = "WorkflowNotDeployed"
        /\ ~proc[p].engCalled
        /\ \E w \in DOMAIN workflows :
              workflows[w].status = "active" /\ ~IsSome(workflows[w].n8n_workflow_id)
        /\ executions = << >>

\* ---- C28
\* C28: every stored execution has an engine execution id and the user_id of
\* the workflow it belongs to, as long as that workflow is stored.
C28_ExecutionHasEngineIdAndOwner ==
    \A e \in DOMAIN executions :
        /\ IsSome(executions[e].n8n_execution_id)
        /\ executions[e].workflow_id \in DOMAIN workflows
             => executions[e].user_id = workflows[executions[e].workflow_id].user_id

\* ---- C30
\* C30: every graph the engine holds is the n8n_workflow_id of a stored
\* workflow, or is held by a deploy that has not yet returned.
C30_NoGraphLeaked ==
    \A g \in DOMAIN graphs :
        \/ \E w \in DOMAIN workflows : workflows[w].n8n_workflow_id = Some(g)
        \/ \E p \in Procs : /\ proc[p].op = "deploy"
                             /\ proc[p].pc # "done"
                             /\ proc[p].gid = Some(g)

\* ---- C22
\* C22: the insert that ends a successful execute_workflow adds exactly one
\* execution record: status running, the workflow's id, the trigger data of
\* the call and the execution id the engine returned; the workflows and the
\* other execution records stay as they are.  An execute_workflow whose
\* engine request failed ends in failure and adds no record.
C22_ExecuteCreatesOneRecord ==
    [][\A p \in Procs :
        /\ n8n_execute_insert(p)
             => /\ proc'[p].result = "started"
                /\ \E e \in DOMAIN executions' \ DOMAIN executions :
                      /\ DOMAIN executions' = DOMAIN executions \cup {e}
                      /\ executions'[e].status = "running"
                      /\ executions'[e].workflow_id = proc[p].wf
                      /\ Some(executions'[e].trigger_data) = proc[p].td
                      /\ executions'[e].n8n_execution_id = proc[p].eid
                /\ \A e \in DOMAIN executions : executions'[e] = executions[e]
                /\ workflows' = workflows
        /\ (proc[p].op = "execute" /\ Returns(p) /\ proc'[p].engFailed)
             => /\ proc'[p].result = "ExecuteFailed"
                /\ executions' = executions]_vars

\* An execute call has returned, its record is stored as running with the
\* payload and the engine's id, next to an older record.
C22_Witness ==
    \E p \in Procs :
        /\ proc[p].op = "execute" /\ proc[p].result = "started"
        /\ DOMAIN executions = {1, 2}
        /\ executions[2].status = "running"
        /\ executions[2].trigger_data = "d1"
        /\ executions[2].n8n_execution_id = Some(2)
        /\ \E w \in DOMAIN workflows :
              workflows[w].status = "active" /\ executions[2].workflow_id = w

\* ---- C24
\* The translation of the workflow state a deploy holds, as a translation
\* made in the current state computes it.
Translated(p) == _convert_to_n8n_format(proc[p].tt, proc[p].steps)

C25_AddedStepLastWithOrder ==
    [][\A p \in Procs :
        LET w == proc[p].wf IN
        (w \in DOMAIN workflows /\ add_workflow_step_push(p))
        => LET steps == workflows'[w].steps IN
           /\ proc'[p].result = "added"
           /\ Len(steps) = Len(workflows[w].steps) + 1
           /\ steps[Len(steps)] = Val(proc[p].step)
           /\ steps[Len(steps)].order = Len(steps) - 1]_vars

\* ---- C29
\* The workflow w, or the execution e, exists and belongs to another user
\* than u.
ForeignWorkflow(u, w) == w \in DOMAIN workflows /\ workflows[w].user_id # u

ForeignExecution(u, e) == e \in DOMAIN executions /\ executions[e].user_id # u

\* The call of p ends at once, reporting that nothing was found, without a
\* request to the engine and without a change to a record.
Refused(p) ==
    /\ proc'[p].pc = "done"
    /\ proc'[p].result \in {"None", "WorkflowNotFound", "ExecutionNotFound",
                              "false", "[]"}
    /\ ~proc'[p].engCalled
    /\ workflows' = workflows
    /\ executions' = executions

\* A call of p to the operation o starts in this step.
Starts(p, o) == proc[p].pc = "done" /\ calls' # calls /\ proc'[p].op = o

\* C29: every operation called by a user on a workflow or an execution of
\* another user reports not-found (None, an empty list, False or a not-found
\* error), sends nothing to the engine and changes no workflow and no
\* execution record.
C29_OwnerIsolation ==
    [][\A p \in Procs, u \in Users :
        /\ \A w \in DOMAIN workflows :
             ForeignWorkflow(u, w)
             => /\ (Starts(p, "get") /\ get_workflow(p, u, w)) => Refused(p)
                /\ Starts(p, "update")
                     => \A st \in WorkflowStatus \cup {"none"} :
                           update_workflow(p, u, w, st) => Refused(p)
                /\ Starts(p, "add_step")
                     => \A body \in StepBodies :
                           add_workflow_step_find(p, u, w, body) => Refused(p)
                /\ Starts(p, "update_step")
                     => \A id \in 1..(nextStep + 1) :
                          /\ \A v \in OrderUpdates :
                                update_workflow_step(p, u, w, id, "order", v)
                                => Refused(p)
                          /\ \A v \in TimeoutUpdates :
                                update_workflow_step(p, u, w, id, "timeout_seconds", v)
                                => Refused(p)
                /\ Starts(p, "remove_step")
                     => \A id \in 1..(nextStep + 1) :
                           remove_workflow_step(p, u, w, id) => Refused(p)
                /\ (Starts(p, "deploy") /\ deploy_workflow_get(p, u, w)) => Refused(p)
                /\ (Starts(p, "execute") /\ execute_workflow_get(p, u, w)) => Refused(p)
                /\ (Starts(p, "pause") /\ pause_workflow(p, u, w)) => Refused(p)
                /\ (Starts(p, "resume") /\ resume_workflow(p, u, w)) => Refused(p)
                /\ (Starts(p, "delete") /\ delete_workflow_get(p, u, w)) => Refused(p)
                /\ (Starts(p, "list") /\ get_workflow_executions(p, u, w))
                     => Refused(p)
        /\ \A e \in DOMAIN executions :
             (ForeignExecution(u, e) /\ Starts(p, "status"))
             => (get_execution_status_get(p, u, e) => Refused(p))]_vars

\* A user has just been refused the pause of an active workflow of another
\* user, which has steps and an execution.
C29_Witness ==
    \E w \in DOMAIN workflows :
        /\ workflows[w].user_id = "u1"
        /\ workflows[w].status = "active"
        /\ workflows[w].steps # << >>
        /\ \E e \in DOMAIN executions : executions[e].workflow_id = w
        /\ proc["p1"].op = "pause" /\ proc["p1"].result = "false"

\* ---- C26
\* C26: a failing execute or deploy task is retried up to a fixed ceiling
\* only: a task's request never has more than 2 retries behind it, so it is
\* attempted at most 3 times; the attempt that fails with 2 retries behind
\* it (for the deploy task: the first) ends the task in failure; and a task
\* that ended in failure is not run again.
C26_RetriesBounded ==
    [][\A p \in Procs :
        /\ proc'[p].retries <= 2
        /\ (proc[p].tstate = "running" /\ proc'[p].tstate # "running"
             /\ proc[p].result \notin {"started", "deployed"}
             /\ (proc[p].retries = 2 \/ proc[p].task = "deploy_workflow_task"))
            => proc'[p].tstate = "failure"
        /\ (proc[p].tstate = "retry" /\ proc'[p].tstate = "running")
            => proc'[p].retries = proc[p].retries
        /\ (proc[p].tstate = "failure" /\ proc'[p].tstate # "failure")
            => proc'[p].retries = 0]_vars

\* An execute task has failed three times, the third time with a request
\* sent to the engine, and is in failure with 2 retries.
C26_Witness ==
    \E p \in Procs :
        /\ proc[p].task = "execute_workflow_task"
        /\ proc[p].tstate = "failure"
        /\ proc[p].retries = 2
        /\ proc[p].engFailed

\* ---- C27
\* C27: with the poll job running for ever, once the engine reports a
\* terminal status for the dispatched executions, and goes on doing so, the
\* stored status of each of them eventually is terminal, whatever the engine
\* reported before (waiting, stored as pending, included).
C27_ReconciliationLive ==
    \A e \in 1..MaxStored :
        EngineFinished ~> (e \in DOMAIN executions
                              => executions[e].status \in TerminalStatus)

====
